---- MODULE Spec2Model ----
(***************************************************************************)
(* Model of pyctest_PTL.py, the PyCTest driver of the Parallel Tasking     *)
(* Library.  The script is one sequential run: configure() parses the      *)
(* options, wipes a stale CMake cache and copies the gperf scripts;        *)
(* run_pyctest() then composes the build name and the configure command,   *)
(* registers the tests and drives generate_config / generate_test_file /   *)
(* run.  Every statement that touches state the properties talk about is   *)
(* one action; pc is the statement about to execute.                       *)
(*                                                                         *)
(* Strings built with str.format are modelled as token sequences, e.g.     *)
(* "-DPTL_USE_ARCH=ON" is <<"-DPTL_USE_ARCH", "ON">> and a path            *)
(* os.path.join(dir, f) is <<dir, f>>.                                     *)
(***************************************************************************)
EXTENDS Integers, Sequences, FiniteSets, TLC

VARIABLES
    pc,                 \* statement about to execute
    cur,                \* number of pyctest.test() objects created so far
    argv,               \* the flags given on the command line
    requested,          \* the build type the command line asks for
    cpu,                \* mp.cpu_count()
    args,               \* result of parser.parse_args()
    files,              \* entries present in pyctest.BINARY_DIRECTORY
    files0,             \* entries present when the run started
    copied,             \* entries written by pyctest.copy_files in this run
    warned,             \* warnings.warn was called
    BUILD_TYPE,         \* pyctest.BUILD_TYPE
    BUILD_NAME,         \* pyctest.BUILD_NAME
    CONFIGURE_COMMAND,  \* pyctest.CONFIGURE_COMMAND
    tests,              \* the pyctest.test() objects, in creation order
    notes,              \* the pyctest.add_note calls, in order
    manifest,           \* the tests as seen by generate_test_file
    failure,            \* "none", "Exception" or "SystemExit"
    raisedAt,           \* the statement that raised
    status              \* process exit status, -1 while running

vars == <<pc, cur, argv, requested, cpu, args, files, files0, copied, warned,
          BUILD_TYPE, BUILD_NAME, CONFIGURE_COMMAND, tests, notes, manifest,
          failure, raisedAt, status>>

----------------------------------------------------------------------------
(* Bounds and input sets *)

MaxCpu == 2

CpuCounts == 1..MaxCpu

BuildTypes == {"Release", "RelWithDebInfo", "Debug", "MinSizeRel"}

Flags == [arch : BOOLEAN, gperf : BOOLEAN, tbb : BOOLEAN]

NoFlags == [arch |-> FALSE, gperf |-> FALSE, tbb |-> FALSE]

BINARY_DIRECTORY == "build-PTL"

SOURCE_DIRECTORY == "source"

CacheEntries == {"CMakeCache.txt", "CMakeFiles"}

GperfScripts == {"gperf_cpu_profile.sh", "gperf_heap_profile.sh"}

\* what a previous run can have left in the binary directory
LeftOvers == CacheEntries \cup GperfScripts

----------------------------------------------------------------------------
(* Pure helpers *)

OnOff(b) == IF b THEN "ON" ELSE "OFF"

\* lines 53, 57-59: the build type after configure()
ResolveBuildType_m(bt, gperf) == bt

ResolveBuildType(bt, gperf) ==
    IF gperf /\ bt = "Release" THEN "RelWithDebInfo" ELSE bt

\* lines 76-80; branch and host facts are opaque
BaseBuildName == <<"[branch] [system version machine]">>

\* lines 95-98
ConfigureCommand(a, bt) ==
    << <<"$", "{CTEST_CMAKE_COMMAND}">>,
       <<"-DPTL_USE_ARCH", OnOff(a.arch)>>,
       <<"-DPTL_USE_GPERF", OnOff(a.gperf)>>,
       <<"-DPTL_USE_TBB", OnOff(a.tbb)>>,
       <<"-DCMAKE_BUILD_TYPE", bt>>,
       <<"-DPTL_BUILD_EXAMPLES", "ON">>,
       <<SOURCE_DIRECTORY>> >>

\* lines 146-152
construct_command_m(cmd, a) ==
    <<<<BINARY_DIRECTORY, "gperf_cpu_profile.sh">>>> \o cmd

construct_command(cmd, a) ==
    (IF a.gperf THEN <<<<BINARY_DIRECTORY, "gperf_cpu_profile.sh">>>>
                ELSE <<>>) \o cmd

\* lines 159-164: the notes one test_env_settings call adds
test_env_notes(prof_fname, clobber, a) ==
    IF a.gperf
    THEN << [dir |-> BINARY_DIRECTORY, file |-> <<prof_fname, ".txt">>,
             clobber |-> clobber],
            [dir |-> BINARY_DIRECTORY, file |-> <<prof_fname, ".cum.txt">>,
             clobber |-> FALSE] >>
    ELSE <<>>

\* lines 165-166: the returned ENVIRONMENT string, one pair per variable
test_env_settings_m(prof_fname, a, n) ==
    IF a.gperf
    THEN << <<"PTL_NUM_THREADS", n>>, <<"CPUPROFILE", prof_fname>>,
            <<"CUTOFF_LOW", 15>> >>
    ELSE << <<"PTL_NUM_THREADS", n>>, <<"CPUPROFILE", prof_fname>> >>

test_env_settings(prof_fname, a, n) ==
    << <<"PTL_NUM_THREADS", n>>, <<"CPUPROFILE", prof_fname>>,
       <<"CUTOFF_LOW", 15>> >>

\* lines 172, 180, 189, 197
TestName(i) ==
    CASE i = 1 -> "tasking"
      [] i = 2 -> "recursive_tasking"
      [] i = 3 -> "tbb_tasking"
      [] i = 4 -> "recursive_tbb_tasking"

\* lines 175, 183, 192, 200
ProfName(i) ==
    CASE i = 1 -> "cpu-prof-tasking"
      [] i = 2 -> "cpu-prof-recursive-tasking"
      [] i = 3 -> "cpu-prof-tbb-tasking"
      [] i = 4 -> "cpu-prof-tbb-recursive-tasking"

\* lines 175, 183, 192, 200: clobber=True only in the first call
ClobberArg_m(i) == i = 2

ClobberArg(i) == i = 1

\* lines 177, 185, 194, 202
BaseCommand(i) == << <<".", TestName(i)>> >>

\* line 187: two tests, four with --tbb
NumTests_m(a) == IF a.gperf THEN 4 ELSE 2

NumTests(a) == IF a.tbb THEN 4 ELSE 2

\* pyctest.test(): a test with nothing set yet
NewTestObject ==
    [name |-> "", wd |-> "", env |-> <<>>, serial |-> FALSE, cmd |-> <<>>]

----------------------------------------------------------------------------
(* Program order *)

PreTest == <<"parse_args", "check_cache", "clean", "rm_cache", "rm_files",
             "copy_files", "coerce", "build_name", "tag_tbb", "tag_arch",
             "tag_gperf", "configure_command", "tool_commands">>

TestPhase == <<"test_new", "test_env", "test_serial", "test_cmd">>

PostTest == <<"generate_config", "generate_test_file", "run", "end",
              "handler", "exited">>

Range(s) == {s[i] : i \in DOMAIN s}

Index(s, x) == CHOOSE i \in DOMAIN s : s[i] = x

\* position of the pair (p, c) in the text of the script
RankOf(p, c) ==
    IF p \in Range(PreTest) THEN Index(PreTest, p)
    ELSE IF p = "test_new" THEN Len(PreTest) + 4 * c + 1
    ELSE IF p \in Range(TestPhase)
         THEN Len(PreTest) + 4 * (c - 1) + Index(TestPhase, p)
         ELSE Len(PreTest) + 16 + Index(PostTest, p)

Rank == RankOf(pc, cur)

\* how far the script got: the statement about to execute, or the one that
\* raised
Progress == IF failure = "none" THEN Rank ELSE RankOf(raisedAt, cur)

\* the statement p (outside the test registration) has been reached
Reached(p) == Progress >= RankOf(p, 0)

\* statements that call into pyctest, the helpers or the file system
CanRaise == {"parse_args", "clean", "rm_cache", "rm_files", "copy_files",
             "build_name", "tool_commands", "test_new", "test_env",
             "test_serial", "test_cmd", "generate_config",
             "generate_test_file", "run"}

----------------------------------------------------------------------------
(* Initial state: the process has started, nothing has run *)

Init ==
    /\ pc = "parse_args"
    /\ cur = 0
    /\ argv \in Flags
    /\ requested \in BuildTypes
    /\ cpu \in CpuCounts
    /\ args = NoFlags
    /\ files \in SUBSET LeftOvers
    /\ files0 = files
    /\ copied = {}
    /\ warned = FALSE
    /\ BUILD_TYPE = ""
    /\ BUILD_NAME = <<>>
    /\ CONFIGURE_COMMAND = <<>>
    /\ tests = <<>>
    /\ notes = <<>>
    /\ manifest = <<>>
    /\ failure = "none"
    /\ raisedAt = ""
    /\ status = -1

----------------------------------------------------------------------------
(* configure(), lines 23-61 *)

\* line 41: parse_args fills args and pyctest.BUILD_TYPE
ParseArgs ==
    /\ pc = "parse_args"
    /\ args' = argv
    /\ BUILD_TYPE' = requested
    /\ pc' = "check_cache"
    /\ UNCHANGED <<cur, argv, requested, cpu, files, files0, copied, warned,
                   BUILD_NAME, CONFIGURE_COMMAND, tests, notes, manifest,
                   failure, raisedAt, status>>

\* line 41: argparse rejects a malformed command line with parser.error,
\* i.e. sys.exit(2); SystemExit is not an Exception, so the except clause of
\* line 216 does not catch it and the process ends with the parser's status
ParserExit ==
    /\ pc = "parse_args"
    /\ status' = 2
    /\ failure' = "SystemExit"
    /\ raisedAt' = pc
    /\ pc' = "exited"
    /\ UNCHANGED <<cur, argv, requested, cpu, args, files, files0, copied,
                   warned, BUILD_TYPE, BUILD_NAME, CONFIGURE_COMMAND, tests,
                   notes, manifest>>

\* line 43
CheckCache ==
    /\ pc = "check_cache"
    /\ pc' = IF "CMakeCache.txt" \in files THEN "clean" ELSE "copy_files"
    /\ UNCHANGED <<cur, argv, requested, cpu, args, files, files0, copied,
                   warned, BUILD_TYPE, BUILD_NAME, CONFIGURE_COMMAND, tests,
                   notes, manifest, failure, raisedAt, status>>

\* lines 44-49: cmake --build <dir> --target clean
CleanTarget ==
    /\ pc = "clean"
    /\ pc' = "rm_cache"
    /\ UNCHANGED <<cur, argv, requested, cpu, args, files, files0, copied,
                   warned, BUILD_TYPE, BUILD_NAME, CONFIGURE_COMMAND, tests,
                   notes, manifest, failure, raisedAt, status>>

\* lines 50-51, first iteration
RemoveCache ==
    /\ pc = "rm_cache"
    /\ files' = files \ {"CMakeCache.txt"}
    /\ pc' = "rm_files"
    /\ UNCHANGED <<cur, argv, requested, cpu, args, files0, copied, warned,
                   BUILD_TYPE, BUILD_NAME, CONFIGURE_COMMAND, tests, notes,
                   manifest, failure, raisedAt, status>>

\* lines 50-51, second iteration
RemoveCMakeFiles_m ==
    /\ pc = "rm_files"
    /\ pc' = "copy_files"
    /\ UNCHANGED <<cur, argv, requested, cpu, args, files, files0, copied,
                   warned, BUILD_TYPE, BUILD_NAME, CONFIGURE_COMMAND, tests,
                   notes, manifest, failure, raisedAt, status>>

RemoveCMakeFiles ==
    /\ pc = "rm_files"
    /\ files' = files \ {"CMakeFiles"}
    /\ pc' = "copy_files"
    /\ UNCHANGED <<cur, argv, requested, cpu, args, files0, copied, warned,
                   BUILD_TYPE, BUILD_NAME, CONFIGURE_COMMAND, tests, notes,
                   manifest, failure, raisedAt, status>>

\* lines 53-56
CopyScripts_m ==
    /\ pc = "copy_files"
    /\ pc' = "coerce"
    /\ UNCHANGED <<cur, argv, requested, cpu, args, files, files0, copied,
                   warned, BUILD_TYPE, BUILD_NAME, CONFIGURE_COMMAND, tests,
                   notes, manifest, failure, raisedAt, status>>

CopyScripts ==
    /\ pc = "copy_files"
    /\ IF args.gperf
       THEN /\ files' = files \cup GperfScripts
            /\ copied' = copied \cup GperfScripts
       ELSE UNCHANGED <<files, copied>>
    /\ pc' = "coerce"
    /\ UNCHANGED <<cur, argv, requested, cpu, args, files0, warned,
                   BUILD_TYPE, BUILD_NAME, CONFIGURE_COMMAND, tests, notes,
                   manifest, failure, raisedAt, status>>

\* lines 53, 57-59
CoerceBuildType ==
    /\ pc = "coerce"
    /\ BUILD_TYPE' = ResolveBuildType(BUILD_TYPE, args.gperf)
    /\ warned' = (args.gperf /\ BUILD_TYPE = "Release")
    /\ pc' = "build_name"
    /\ UNCHANGED <<cur, argv, requested, cpu, args, files, files0, copied,
                   BUILD_NAME, CONFIGURE_COMMAND, tests, notes, manifest,
                   failure, raisedAt, status>>

----------------------------------------------------------------------------
(* run_pyctest(), lines 66-206 *)

\* lines 76-80
SetBuildName ==
    /\ pc = "build_name"
    /\ BUILD_NAME' = BaseBuildName
    /\ pc' = "tag_tbb"
    /\ UNCHANGED <<cur, argv, requested, cpu, args, files, files0, copied,
                   warned, BUILD_TYPE, CONFIGURE_COMMAND, tests, notes,
                   manifest, failure, raisedAt, status>>

\* lines 85-86
TagTbb ==
    /\ pc = "tag_tbb"
    /\ BUILD_NAME' = IF args.tbb THEN Append(BUILD_NAME, "[tbb]")
                                 ELSE BUILD_NAME
    /\ pc' = "tag_arch"
    /\ UNCHANGED <<cur, argv, requested, cpu, args, files, files0, copied,
                   warned, BUILD_TYPE, CONFIGURE_COMMAND, tests, notes,
                   manifest, failure, raisedAt, status>>

\* lines 87-88
TagArch_m ==
    /\ pc = "tag_arch"
    /\ BUILD_NAME' = IF args.arch
                     THEN <<BUILD_NAME[1], "[arch]">>
                              \o SubSeq(BUILD_NAME, 2, Len(BUILD_NAME))
                     ELSE BUILD_NAME
    /\ pc' = "tag_gperf"
    /\ UNCHANGED <<cur, argv, requested, cpu, args, files, files0, copied,
                   warned, BUILD_TYPE, CONFIGURE_COMMAND, tests, notes,
                   manifest, failure, raisedAt, status>>

TagArch ==
    /\ pc = "tag_arch"
    /\ BUILD_NAME' = IF args.arch THEN Append(BUILD_NAME, "[arch]")
                                  ELSE BUILD_NAME
    /\ pc' = "tag_gperf"
    /\ UNCHANGED <<cur, argv, requested, cpu, args, files, files0, copied,
                   warned, BUILD_TYPE, CONFIGURE_COMMAND, tests, notes,
                   manifest, failure, raisedAt, status>>

\* lines 89-90
TagGperf ==
    /\ pc = "tag_gperf"
    /\ BUILD_NAME' = IF args.gperf THEN Append(BUILD_NAME, "[gperf]")
                                   ELSE BUILD_NAME
    /\ pc' = "configure_command"
    /\ UNCHANGED <<cur, argv, requested, cpu, args, files, files0, copied,
                   warned, BUILD_TYPE, CONFIGURE_COMMAND, tests, notes,
                   manifest, failure, raisedAt, status>>

\* lines 95-98
SetConfigureCommand ==
    /\ pc = "configure_command"
    /\ CONFIGURE_COMMAND' = ConfigureCommand(args, BUILD_TYPE)
    /\ pc' = "tool_commands"
    /\ UNCHANGED <<cur, argv, requested, cpu, args, files, files0, copied,
                   warned, BUILD_TYPE, BUILD_NAME, tests, notes, manifest,
                   failure, raisedAt, status>>

\* lines 103-141: build and update commands, clang-tidy, token file; none
\* of them touches the state above
SetToolCommands ==
    /\ pc = "tool_commands"
    /\ pc' = "test_new"
    /\ UNCHANGED <<cur, argv, requested, cpu, args, files, files0, copied, warned,
                   BUILD_TYPE, BUILD_NAME, CONFIGURE_COMMAND, tests, notes,
                   manifest, failure, raisedAt, status>>

\* the test object the script's variable `test` refers to
SetField(f, v) == [tests EXCEPT ![cur] = [@ EXCEPT ![f] = v]]

\* lines 171-173 (179-181, 188-190, 196-198): pyctest.test(), SetName,
\* WORKING_DIRECTORY
NewTest ==
    /\ pc = "test_new"
    /\ cur' = cur + 1
    /\ tests' = Append(tests, [NewTestObject EXCEPT
                                  !.name = TestName(cur'),
                                  !.wd = BINARY_DIRECTORY])
    /\ pc' = "test_env"
    /\ UNCHANGED <<argv, requested, cpu, args, files, files0, copied,
                   warned, BUILD_TYPE, BUILD_NAME, CONFIGURE_COMMAND, notes,
                   manifest, failure, raisedAt, status>>

\* lines 174-175 (182-183, 191-192, 199-200) with the call of
\* test_env_settings, lines 157-166
SetEnvironment ==
    /\ pc = "test_env"
    /\ notes' = notes \o test_env_notes(ProfName(cur), ClobberArg(cur), args)
    /\ tests' = SetField("env", test_env_settings(ProfName(cur), args, cpu))
    /\ pc' = "test_serial"
    /\ UNCHANGED <<cur, argv, requested, cpu, args, files, files0, copied,
                   warned, BUILD_TYPE, BUILD_NAME, CONFIGURE_COMMAND,
                   manifest, failure, raisedAt, status>>

\* line 176 (184, 193, 201)
SetRunSerial_m ==
    /\ pc = "test_serial"
    /\ tests' = SetField("serial", cur <= 2)
    /\ pc' = "test_cmd"
    /\ UNCHANGED <<cur, argv, requested, cpu, args, files, files0, copied,
                   warned, BUILD_TYPE, BUILD_NAME, CONFIGURE_COMMAND, notes,
                   manifest, failure, raisedAt, status>>

SetRunSerial ==
    /\ pc = "test_serial"
    /\ tests' = SetField("serial", TRUE)
    /\ pc' = "test_cmd"
    /\ UNCHANGED <<cur, argv, requested, cpu, args, files, files0, copied,
                   warned, BUILD_TYPE, BUILD_NAME, CONFIGURE_COMMAND, notes,
                   manifest, failure, raisedAt, status>>

\* line 177 (185, 194, 202), then line 187 decides whether more tests follow
SetCommand ==
    /\ pc = "test_cmd"
    /\ tests' = SetField("cmd", construct_command(BaseCommand(cur), args))
    /\ pc' = IF cur < NumTests(args) THEN "test_new" ELSE "generate_config"
    /\ UNCHANGED <<cur, argv, requested, cpu, args, files, files0, copied, warned,
                   BUILD_TYPE, BUILD_NAME, CONFIGURE_COMMAND, notes, manifest,
                   failure, raisedAt, status>>

\* line 204
GenerateConfig ==
    /\ pc = "generate_config"
    /\ pc' = "generate_test_file"
    /\ UNCHANGED <<cur, argv, requested, cpu, args, files, files0, copied,
                   warned, BUILD_TYPE, BUILD_NAME, CONFIGURE_COMMAND, tests,
                   notes, manifest, failure, raisedAt, status>>

\* line 205: the manifest is written from the tests registered so far
GenerateTestFile ==
    /\ pc = "generate_test_file"
    /\ manifest' = tests
    /\ pc' = "run"
    /\ UNCHANGED <<cur, argv, requested, cpu, args, files, files0, copied,
                   warned, BUILD_TYPE, BUILD_NAME, CONFIGURE_COMMAND, tests,
                   notes, failure, raisedAt, status>>

\* line 206
RunPipeline ==
    /\ pc = "run"
    /\ pc' = "end"
    /\ UNCHANGED <<cur, argv, requested, cpu, args, files, files0, copied,
                   warned, BUILD_TYPE, BUILD_NAME, CONFIGURE_COMMAND, tests,
                   notes, manifest, failure, raisedAt, status>>

----------------------------------------------------------------------------
(* __main__, lines 210-222 *)

\* a call made by the current statement raises an Exception; control goes
\* to the except clause of line 216
Raise ==
    /\ pc \in CanRaise
    /\ failure' = "Exception"
    /\ raisedAt' = pc
    /\ pc' = "handler"
    /\ UNCHANGED <<cur, argv, requested, cpu, args, files, files0, copied,
                   warned, BUILD_TYPE, BUILD_NAME, CONFIGURE_COMMAND, tests,
                   notes, manifest, status>>

\* lines 216-220
ExceptHandler_m ==
    /\ pc = "handler"
    /\ status' = 0
    /\ pc' = "exited"
    /\ UNCHANGED <<cur, argv, requested, cpu, args, files, files0, copied,
                   warned, BUILD_TYPE, BUILD_NAME, CONFIGURE_COMMAND, tests,
                   notes, manifest, failure, raisedAt>>

ExceptHandler ==
    /\ pc = "handler"
    /\ status' = 1
    /\ pc' = "exited"
    /\ UNCHANGED <<cur, argv, requested, cpu, args, files, files0, copied,
                   warned, BUILD_TYPE, BUILD_NAME, CONFIGURE_COMMAND, tests,
                   notes, manifest, failure, raisedAt>>

\* line 222
ExitSuccess ==
    /\ pc = "end"
    /\ status' = 0
    /\ pc' = "exited"
    /\ UNCHANGED <<cur, argv, requested, cpu, args, files, files0, copied,
                   warned, BUILD_TYPE, BUILD_NAME, CONFIGURE_COMMAND, tests,
                   notes, manifest, failure, raisedAt>>

Next ==
    \/ ParseArgs
    \/ ParserExit
    \/ CheckCache
    \/ CleanTarget
    \/ RemoveCache
    \/ RemoveCMakeFiles
    \/ CopyScripts
    \/ CoerceBuildType
    \/ SetBuildName
    \/ TagTbb
    \/ TagArch
    \/ TagGperf
    \/ SetConfigureCommand
    \/ SetToolCommands
    \/ NewTest
    \/ SetEnvironment
    \/ SetRunSerial
    \/ SetCommand
    \/ GenerateConfig
    \/ GenerateTestFile
    \/ RunPipeline
    \/ Raise
    \/ ExceptHandler
    \/ ExitSuccess

Spec == Init /\ [][Next]_vars

\* the script is one thread that always takes its next step
FairSpec == Spec /\ WF_vars(Next)

TypeOK ==
    /\ pc \in Range(PreTest) \cup Range(TestPhase) \cup Range(PostTest)
    /\ cur \in 0..4
    /\ args \in Flags
    /\ files \subseteq LeftOvers
    /\ copied \subseteq GperfScripts
    /\ Len(tests) = cur
    /\ failure \in {"none", "Exception", "SystemExit"}
    /\ status \in {-1, 0, 1, 2}

----------------------------------------------------------------------------
(* Properties *)

MaxCmdLen == 2

Launcher == <<"build-PTL", "gperf_cpu_profile.sh">>

CmdTokens == {<<".", "tasking">>, <<".", "recursive_tasking">>, Launcher}

\* the token sequences construct_command is tried on
CmdInputs == UNION {[1..n -> CmdTokens] : n \in 0..MaxCmdLen}

HasVar(env, k) == \E i \in DOMAIN env : env[i][1] = k

ValueOf(env, k) == env[CHOOSE i \in DOMAIN env : env[i][1] = k][2]

NamesOf(ts) == [i \in DOMAIN ts |-> ts[i].name]

\* C1: once configure() has returned the build type is never Release while
\* gperf is on: a requested Release became RelWithDebInfo, any other request
\* (or any request without gperf) is kept, resolving again changes nothing,
\* and the configure command composed afterwards carries the resolved build
\* type next to the gperf switch.
C1_BuildTypeCoercion ==
    Reached("build_name") =>
        /\ ~(args.gperf /\ BUILD_TYPE = "Release")
        /\ (args.gperf /\ requested = "Release")
              => BUILD_TYPE = "RelWithDebInfo"
        /\ (~args.gperf \/ requested # "Release") => BUILD_TYPE = requested
        /\ ResolveBuildType(BUILD_TYPE, args.gperf) = BUILD_TYPE
        /\ Reached("tool_commands") =>
              /\ CONFIGURE_COMMAND[5] = <<"-DCMAKE_BUILD_TYPE", BUILD_TYPE>>
              /\ CONFIGURE_COMMAND[3] =
                    <<"-DPTL_USE_GPERF", IF args.gperf THEN "ON" ELSE "OFF">>
              /\ (args.gperf /\ requested = "Release") =>
                    /\ CONFIGURE_COMMAND[5] =
                          <<"-DCMAKE_BUILD_TYPE", "RelWithDebInfo">>
                    /\ CONFIGURE_COMMAND[3] = <<"-DPTL_USE_GPERF", "ON">>

C1_Witness ==
    /\ pc = "tool_commands"
    /\ args.gperf
    /\ requested = "Release"
    /\ warned
    /\ CONFIGURE_COMMAND[5] = <<"-DCMAKE_BUILD_TYPE", "RelWithDebInfo">>

\* C2 as stated: every environment that has been set holds PTL_NUM_THREADS =
\* cpu count; with gperf it also holds CPUPROFILE and CUTOFF_LOW = 15, and
\* without gperf neither of the two variables is present.
C2_Original ==
    \A i \in DOMAIN tests :
        tests[i].env # <<>> =>
            /\ HasVar(tests[i].env, "PTL_NUM_THREADS")
            /\ ValueOf(tests[i].env, "PTL_NUM_THREADS") = cpu
            /\ args.gperf =>
                  /\ HasVar(tests[i].env, "CPUPROFILE")
                  /\ HasVar(tests[i].env, "CUTOFF_LOW")
                  /\ ValueOf(tests[i].env, "CUTOFF_LOW") = 15
            /\ ~args.gperf =>
                  /\ ~HasVar(tests[i].env, "CPUPROFILE")
                  /\ ~HasVar(tests[i].env, "CUTOFF_LOW")

\* C2 amended: every environment that has been set holds exactly the three
\* variables PTL_NUM_THREADS = cpu count, CPUPROFILE = the test's profile
\* name and CUTOFF_LOW = 15, whether gperf is on or off; the manifest carries
\* the same environments.
C2_EnvAlwaysThreeVars ==
    /\ \A i \in DOMAIN tests :
          tests[i].env # <<>> =>
              /\ Len(tests[i].env) = 3
              /\ ValueOf(tests[i].env, "PTL_NUM_THREADS") = cpu
              /\ ValueOf(tests[i].env, "CPUPROFILE") =
                    <<"cpu-prof-tasking", "cpu-prof-recursive-tasking",
                      "cpu-prof-tbb-tasking",
                      "cpu-prof-tbb-recursive-tasking">>[i]
              /\ ValueOf(tests[i].env, "CUTOFF_LOW") = 15
    /\ \A i \in DOMAIN manifest : Len(manifest[i].env) = 3

C2_Witness ==
    /\ pc = "run"
    /\ ~args.gperf
    /\ Len(manifest) = 2
    /\ HasVar(manifest[2].env, "CPUPROFILE")
    /\ HasVar(manifest[2].env, "CUTOFF_LOW")

\* C3 as stated: for every flag combination, once all tests are registered
\* exactly one note has clobber = TRUE, it is the one of tasking, and every
\* other note has clobber = FALSE.
C3_Original ==
    Reached("generate_config") =>
        /\ Cardinality({i \in DOMAIN notes : notes[i].clobber}) = 1
        /\ \A i \in DOMAIN notes :
              notes[i].clobber => notes[i].file[1] = "cpu-prof-tasking"

\* C3 amended: with gperf on, once all tests are registered exactly one note
\* has clobber = TRUE, namely cpu-prof-tasking.txt of the first test, and
\* each test has added two notes; at any time every other note has clobber =
\* FALSE; with gperf off no note is ever added, so none has clobber = TRUE.
C3_OneClobberWithGperf ==
    /\ \A i \in DOMAIN notes :
          notes[i].clobber <=> (i = 1 /\ notes[i].file =
                                           <<"cpu-prof-tasking", ".txt">>)
    /\ ~args.gperf => notes = <<>>
    /\ (args.gperf /\ Reached("generate_config")) =>
          /\ Cardinality({i \in DOMAIN notes : notes[i].clobber}) = 1
          /\ Len(notes) = 2 * Len(tests)

C3_Witness ==
    /\ pc = "generate_config"
    /\ args.gperf
    /\ Len(notes) = 8
    /\ notes[1].clobber
    /\ ~notes[3].clobber

\* C4 as stated: the process exits with 1 after any failure and with 0
\* otherwise; no other status is produced.
C4_Original ==
    pc = "exited" =>
        /\ status \in {0, 1}
        /\ failure # "none" => status = 1
        /\ failure = "none" => status = 0

\* C4 amended: statements run strictly in program order and none runs twice;
\* a raised Exception leads straight to the handler and to exit status 1, a
\* run whose statements all complete exits with 0, and a command line the
\* argument parser rejects ends the run at once with the parser's status 2
\* (SystemExit is not caught by `except Exception`).
C4_TerminalFailure ==
    [][ /\ Rank' > Rank
        /\ (failure = "none" /\ failure' # "none") =>
              pc' \in {"handler", "exited"}
        /\ pc = "handler" => pc' = "exited"
        /\ status' # -1 => pc' = "exited"
        /\ pc' = "exited" =>
              status' = CASE failure' = "none" -> 0
                          [] failure' = "Exception" -> 1
                          [] failure' = "SystemExit" -> 2
        /\ failure' = "SystemExit" => raisedAt' = "parse_args" ]_vars

C4_Witness ==
    /\ pc = "exited"
    /\ failure = "Exception"
    /\ raisedAt = "run"
    /\ status = 1

\* C5: the registered names are always a prefix of tasking,
\* recursive_tasking, tbb_tasking, recursive_tbb_tasking; once registration
\* is over they are the first two without tbb and all four with it, for any
\* arch and gperf; the tbb tests never appear without tbb.
C5_RegisteredNames ==
    LET Four == <<"tasking", "recursive_tasking", "tbb_tasking",
                  "recursive_tbb_tasking">>
        Two == <<"tasking", "recursive_tasking">>
        names == NamesOf(tests)
    IN  /\ Len(names) <= 4
        /\ names = SubSeq(Four, 1, Len(names))
        /\ Two = SubSeq(Four, 1, 2)
        /\ ~args.tbb => \A i \in DOMAIN names :
                            names[i] \notin {"tbb_tasking",
                                             "recursive_tbb_tasking"}
        /\ Reached("generate_config") =>
              names = IF args.tbb THEN Four ELSE Two
        /\ Reached("run") => NamesOf(manifest) = names

C5_Witness ==
    /\ pc = "run"
    /\ ~args.tbb
    /\ args.gperf
    /\ NamesOf(manifest) = <<"tasking", "recursive_tasking">>

\* C6: from the statement after the last tag on, the build name is the base
\* string followed by [tbb], [arch], [gperf] in that order, each once iff
\* its flag is set, and no later step changes it.
C6_BuildName ==
    [][ /\ Reached("configure_command")' =>
              BUILD_NAME' = <<"[branch] [system version machine]">>
                               \o (IF args'.tbb THEN <<"[tbb]">> ELSE <<>>)
                               \o (IF args'.arch THEN <<"[arch]">> ELSE <<>>)
                               \o (IF args'.gperf THEN <<"[gperf]">> ELSE <<>>)
        /\ Reached("configure_command") => BUILD_NAME' = BUILD_NAME ]_vars

C6_Witness ==
    /\ pc = "run"
    /\ BUILD_NAME = <<"[branch] [system version machine]", "[tbb]", "[arch]",
                      "[gperf]">>

\* C7: construct_command returns its input unchanged without gperf, so
\* wrapping twice is still the input, and with gperf returns the input
\* behind exactly one more token, the launcher under the binary directory;
\* every command that has been set is ./<name>, behind one launcher token
\* iff gperf is on.
C7_ConstructCommand ==
    /\ \A cmd \in CmdInputs :
          LET w == construct_command(cmd, args)
          IN  /\ ~args.gperf => w = cmd /\ construct_command(w, args) = cmd
              /\ args.gperf => /\ Len(w) = Len(cmd) + 1
                               /\ Head(w) = Launcher
                               /\ Tail(w) = cmd
    /\ \A i \in DOMAIN tests :
          tests[i].cmd # <<>> =>
              tests[i].cmd = IF args.gperf
                             THEN <<Launcher, <<".", tests[i].name>> >>
                             ELSE << <<".", tests[i].name>> >>

C7_Witness ==
    /\ pc = "run"
    /\ args.gperf
    /\ Len(manifest) = 4
    /\ manifest[4].cmd = <<Launcher, <<".", "recursive_tbb_tasking">> >>

\* C8: when generate_test_file runs, and from then on, every registered test
\* has RUN_SERIAL set, for any flags, and the manifest holds exactly these
\* tests.
C8_AllSerial ==
    /\ Reached("generate_test_file") =>
          /\ Len(tests) >= 2
          /\ \A i \in DOMAIN tests : tests[i].serial
    /\ Reached("run") => manifest = tests
    /\ \A i \in DOMAIN manifest : manifest[i].serial

C8_Witness ==
    /\ pc = "run"
    /\ Len(manifest) = 4
    /\ \A i \in DOMAIN manifest : manifest[i].serial

C10_LauncherCopied ==
    [][ /\ \A i \in DOMAIN tests' :
              (tests'[i].cmd # <<>> /\ Head(tests'[i].cmd) = Launcher) =>
                  /\ "gperf_cpu_profile.sh" \in copied'
                  /\ "gperf_cpu_profile.sh" \in files'
        /\ ~args'.gperf =>
              /\ copied' = {}
              /\ \A i \in DOMAIN tests' :
                    tests'[i].cmd # <<>> => Head(tests'[i].cmd) # Launcher
        /\ args'.gperf =>
              \A i \in DOMAIN tests' :
                  tests'[i].cmd # <<>> => Head(tests'[i].cmd) = Launcher
        /\ copied' # copied =>
              /\ pc = "copy_files"
              /\ tests = <<>>
              /\ manifest = <<>>
        /\ files' \cap {"CMakeCache.txt", "CMakeFiles"} #
           files \cap {"CMakeCache.txt", "CMakeFiles"} => copied = {}
        /\ copied \subseteq copied'
        /\ copied \cap files \subseteq files' ]_vars

C10_Witness ==
    /\ pc = "run"
    /\ args.gperf
    /\ "CMakeCache.txt" \in files0
    /\ Head(manifest[1].cmd) = Launcher
    /\ "gperf_cpu_profile.sh" \in copied \cap files

====
